---- MODULE Spec2Model ----
(***************************************************************************)
(* The asynchronous confirmation-mail queue of src/app.py: the module      *)
(* global email_queue, the producers that put tasks on it                  *)
(* (queue_email_task, called directly or by the /submit handler), and the  *)
(* single daemon thread background_email_worker that takes tasks off it    *)
(* and calls send_confirmation_email_async for each.                       *)
(*                                                                         *)
(* Wall-clock time is abstracted: the 30 s timeout of email_queue.get and  *)
(* the 10 s SMTP timeout appear as the steps "get raised Empty" and "the   *)
(* attempt returned after a timeout".                                      *)
(***************************************************************************)
EXTENDS Naturals, Sequences, FiniteSets

\* ------------------------------------------------------------- bounds

\* Total number of email_queue.put calls in one behaviour.
MaxPuts == 3

\* The count of consecutive idle timeouts saturates here.
MaxIdle == 1

\* ------------------------------------------------------------- values

\* The request-handling units (threads of the web server, or any caller).
Producers == {"p1", "p2"}

\* Recipient addresses a caller can pass; "" is the empty recipient.
Emails == {"a@x.com", "b@x.com"}

EmailInputs == Emails \cup {""}

\* Display names a caller can pass.
Names == {"Alice"}

\* data.get('fullName', 'User')
DefaultName == "User"

\* Python truthiness of a string: '' is falsy.
Truthy(s) == s # ""

\* Queue() is built without maxsize: 0 means unbounded.
maxsize == 0

\* An item of email_queue.  A task is the tuple (to_email, name); id is a
\* history field: the item's position among all puts.
Task(to, name, id) == [kind |-> "task", to |-> to, name |-> name, id |-> id]

\* The shutdown sentinel None.
None(id) == [kind |-> "None", to |-> "", name |-> "", id |-> id]

\* task is None
IsNone(item) == item.kind = "None"

\* The worker holds no task.
NoTask == [kind |-> "none", to |-> "", name |-> "", id |-> 0]

\* The history's record of one put: what was put, for whom, and by whom.
PutRecord(item, by) == [kind |-> item.kind, to |-> item.to, by |-> by]

\* What the mail transport does to one attempt (the environment's choice).
Outcomes == {"sent", "auth_error", "smtp_error", "timeout", "other_error"}

VARIABLES
    EMAIL_USER,        \* os.getenv("EMAIL_USER", "")
    EMAIL_PASSWORD,    \* os.getenv("EMAIL_PASSWORD", "")
    email_queue,       \* the items of the Queue, head first
    unfinished_tasks,  \* Queue.unfinished_tasks
    pc,                \* where the worker thread is: "get", "send", "done"
    task,              \* the worker's local variable task
    idle,              \* how often in a row get(timeout=30) raised Empty
    last,              \* history: what the latest producer call returned
    puts,              \* history: every item put, in the order of the puts
    attempts,          \* history: the calls of send_confirmation_email_async
    last_result        \* history: how the attempt just finished ended

vars == <<EMAIL_USER, EMAIL_PASSWORD, email_queue, unfinished_tasks, pc, task,
          idle, last, puts, attempts, last_result>>

config == <<EMAIL_USER, EMAIL_PASSWORD>>
worker == <<pc, task, idle, attempts, last_result>>
queue  == <<email_queue, unfinished_tasks, puts>>

\* ------------------------------------------------------ queue.Queue

\* Faulty variant: a queue of one slot, put waits until the worker has taken the item.
PutWaitsForWorker(q) == Len(q) < 1

\* Queue.put blocks only while a bounded queue is full.
PutMayProceed(q) == maxsize = 0 \/ Len(q) < maxsize

\* Faulty variant: put overwrites what is queued.
QueuePutReplaces(q, item) == <<item>>

\* Faulty variant: put inserts at the head.
QueuePutFront(q, item) == <<item>> \o q

\* Queue.put appends at the tail.
QueuePut(q, item) == Append(q, item)

\* Faulty variant: get returns the head and leaves it in the queue.
QueueGetPeeks(q) == [item |-> Head(q), rest |-> q]

\* Queue.get takes the head: the item it returns and what is left.
QueueGet(q) == [item |-> Head(q), rest |-> Tail(q)]

\* email_queue.put(item) by producer p, with the history of puts.
Put(p, item) ==
    /\ Len(puts) < MaxPuts
    /\ PutMayProceed(email_queue)
    /\ email_queue' = QueuePut(email_queue, item)
    /\ unfinished_tasks' = unfinished_tasks + 1
    /\ puts' = Append(puts, PutRecord(item, p))

\* ------------------------------------------------- queue_email_task

\* Faulty variant: the check of the recipient is missing.
QueueAcceptsAnything(to_email) == TRUE

\* if not to_email: return False
QueueAccepts(to_email) == Truthy(to_email)

\* What the latest producer call returned: ret is the return value of
\* queue_email_task ("none" when the call did not reach it), email_queued the
\* field of that name in the response of /submit (FALSE when the call was
\* not a /submit request or its response has no such field).
Returned(ret, email_queued) == [ret |-> ret, email_queued |-> email_queued]

\* No call has returned yet.
NoCall == Returned("none", FALSE)

\* str(bool): how a return value is recorded.
Str(b) == IF b THEN "True" ELSE "False"

\* queue_email_task(to_email, name) called by producer p: its effect on the
\* queue; it returns QueueAccepts(to_email).  The put on the unbounded queue
\* does not raise, so the except branch is not taken.
queue_email_task(p, to_email, name) ==
    IF QueueAccepts(to_email)
    THEN Put(p, Task(to_email, name, Len(puts) + 1))
    ELSE UNCHANGED queue

\* A producer calls queue_email_task directly.
Enqueue(p, to_email, name) ==
    /\ queue_email_task(p, to_email, name)
    /\ last' = Returned(Str(QueueAccepts(to_email)), FALSE)
    /\ UNCHANGED <<config, worker>>

\* ------------------------------------------- send_confirmation_email_async

\* The exception the SMTP calls of one attempt raise.
ExceptionOf(outcome) ==
    CASE outcome = "sent"        -> "none"
      [] outcome = "auth_error"  -> "SMTPAuthenticationError"
      [] outcome = "smtp_error"  -> "SMTPException"
      [] outcome = "timeout"     -> "TimeoutError"
      [] outcome = "other_error" -> "Exception"

\* issubclass(exc, cls) for the classes above.
IsSubclass(exc, cls) ==
    \/ exc = cls
    \/ cls = "Exception" /\ exc # "none"
    \/ cls = "SMTPException" /\ exc = "SMTPAuthenticationError"

\* The except clauses of send_confirmation_email_async, in order.
SendHandlers == <<"SMTPAuthenticationError", "SMTPException", "Exception">>

\* One attempt: what it returns (ret), whether an exception leaves it
\* (raised), and how it ended.
send_confirmation_email_async(to_email, name, outcome) ==
    IF ~(Truthy(EMAIL_USER) /\ Truthy(EMAIL_PASSWORD))
    THEN [ret |-> FALSE, raised |-> FALSE, how |-> "no_credentials"]
    ELSE LET exc == ExceptionOf(outcome) IN
         IF exc = "none"
         THEN [ret |-> TRUE, raised |-> FALSE, how |-> "sent"]
         ELSE IF \E i \in 1..Len(SendHandlers) : IsSubclass(exc, SendHandlers[i])
         THEN [ret |-> FALSE, raised |-> FALSE, how |-> outcome]
         ELSE [ret |-> FALSE, raised |-> TRUE, how |-> outcome]

\* ------------------------------------------------ background_email_worker

\* Faulty variant: the sentinel is not recognised.
AfterGetIgnoresSentinel(item) == "send"

\* if task is None: break
AfterGet(item) == IF IsNone(item) THEN "done" ELSE "send"

\* Faulty variant: the worker leaves its loop when get times out.
AfterEmptyExits == "done"

\* except Empty: continue
AfterEmpty == "get"

\* Faulty variant: a failed attempt ends the loop.
AfterAttemptExitsOnFailure(res) == IF res.ret THEN "get" ELSE "done"

\* After the attempt: task_done() and the next iteration, or the worker's
\* own except Exception: continue.
AfterAttempt(res) == "get"

\* The history's record of one call send_confirmation_email_async(to_email,
\* name): the id of the task it is made for and the recipient passed.
Attempt(id, to_email) == [id |-> id, to |-> to_email]

\* task = email_queue.get(timeout=30) returns an item.
WorkerGet ==
    /\ pc = "get"
    /\ email_queue # <<>>
    /\ LET g == QueueGet(email_queue) IN
         /\ email_queue' = g.rest
         /\ pc' = AfterGet(g.item)
         /\ IF AfterGet(g.item) = "send"
            THEN /\ task' = g.item
                 /\ attempts' = Append(attempts, Attempt(g.item.id, g.item.to))
            ELSE /\ task' = NoTask
                 /\ UNCHANGED attempts
    /\ idle' = 0
    /\ last_result' = "none"
    /\ UNCHANGED <<config, unfinished_tasks, puts, last>>

\* email_queue.get(timeout=30) raises Empty: the queue stayed empty.
WorkerGetEmpty ==
    /\ pc = "get"
    /\ email_queue = <<>>
    /\ pc' = AfterEmpty
    /\ idle' = IF idle < MaxIdle THEN idle + 1 ELSE idle
    /\ UNCHANGED <<config, queue, task, attempts, last_result, last>>

\* Faulty variant: task_done is called only for an attempt that succeeded.
TaskDoneOnSuccessOnly(res) == res.ret

\* email_queue.task_done() is the statement after the call of
\* send_confirmation_email_async: it is reached when the call returns,
\* whatever it returns, and skipped when an exception leaves the call.
TaskDoneReached(res) == ~res.raised

\* Queue.task_done(): one unfinished task less.
task_done(n) == n - 1

\* send_confirmation_email_async(to_email, name) returns (or raises), then
\* email_queue.task_done().
WorkerSend(outcome) ==
    /\ pc = "send"
    /\ LET res == send_confirmation_email_async(task.to, task.name, outcome) IN
         /\ last_result' = res.how
         /\ unfinished_tasks' =
                IF TaskDoneReached(res) THEN task_done(unfinished_tasks)
                                        ELSE unfinished_tasks
         /\ pc' = AfterAttempt(res)
    /\ task' = NoTask
    /\ UNCHANGED <<config, email_queue, puts, idle, attempts, last>>

Worker ==
    \/ WorkerGet
    \/ WorkerGetEmpty
    \/ \E outcome \in Outcomes : WorkerSend(outcome)

\* ------------------------------------------------------------ /submit

\* dict.get(key, default)
Get(data, key, default) == IF key \in DOMAIN data THEN data[key] ELSE default

\* The JSON objects a client can post: any subset of the two keys the
\* handler reads for the mail, <<>> being the empty object.
Dicts ==
    UNION { { d \in [K -> EmailInputs \cup Names] :
                /\ "email" \in K => d["email"] \in EmailInputs
                /\ "fullName" \in K => d["fullName"] \in Names }
            : K \in SUBSET {"email", "fullName"} }

\* A request: its method, and request.json: an object ("dict"), or a JSON
\* value that is truthy and has no .get ("other": data.get raises).
Requests ==
    {[method |-> "OPTIONS", json |-> "dict", data |-> <<>>]}
    \cup {[method |-> "POST", json |-> "dict", data |-> d] : d \in Dicts}
    \cup {[method |-> "POST", json |-> "other", data |-> <<>>]}

\* Faulty variant: one of the two credentials is enough.
ShouldQueueEitherCredential(email) ==
    Truthy(email) /\ (Truthy(EMAIL_USER) \/ Truthy(EMAIL_PASSWORD))

\* if email: if EMAIL_USER and EMAIL_PASSWORD:
ShouldQueue(email) ==
    Truthy(email) /\ Truthy(EMAIL_USER) /\ Truthy(EMAIL_PASSWORD)

\* The response of submit_form: (body, status), with the field email_queued
\* of the success body.
Response(status, body, email_queued) ==
    [status |-> status, body |-> body, email_queued |-> email_queued]

\* request.json is an object that is not empty.
HasData(req) == req.method = "POST" /\ req.json = "dict" /\ req.data # <<>>

\* email = data.get('email', '')
SubmittedEmail(req) == Get(req.data, "email", "")

\* name = data.get('fullName', 'User')
SubmittedName(req) == Get(req.data, "fullName", DefaultName)

\* Whether submit_form calls queue_email_task.
SubmitQueues(req) == HasData(req) /\ ShouldQueue(SubmittedEmail(req))

\* What submit_form returns.
submit_form_response(req) ==
    IF req.method = "OPTIONS" THEN Response(200, "", FALSE)
    ELSE IF req.json # "dict" THEN Response(500, "error", FALSE)
    ELSE IF req.data = <<>> THEN Response(400, "error", FALSE)
    ELSE Response(200, "success",
                  SubmitQueues(req) /\ QueueAccepts(SubmittedEmail(req)))

\* submit_form, from the request to the response it returns.  Nothing in it
\* waits: it returns in the step in which it puts the task.
SubmitForm(p, req) ==
    /\ IF SubmitQueues(req)
       THEN /\ queue_email_task(p, SubmittedEmail(req), SubmittedName(req))
            /\ last' = Returned(Str(QueueAccepts(SubmittedEmail(req))),
                                submit_form_response(req).email_queued)
       ELSE /\ UNCHANGED queue
            /\ last' = Returned("none", submit_form_response(req).email_queued)
    /\ UNCHANGED <<config, worker>>

\* ------------------------------------------------------------ shutdown

\* stop(): email_queue.put(None).
Stop ==
    /\ Put("stop", None(Len(puts) + 1))
    /\ UNCHANGED <<config, worker, last>>

\* ------------------------------------------------------ specifications

\* The module has been imported: the queue is empty and the worker thread
\* has been started.
Init ==
    /\ EMAIL_USER \in {"", "me@gmail.com"}
    /\ EMAIL_PASSWORD \in {"", "app-password"}
    /\ email_queue = <<>>
    /\ unfinished_tasks = 0
    /\ pc = "get"
    /\ task = NoTask
    /\ idle = 0
    /\ last = NoCall
    /\ puts = <<>>
    /\ attempts = <<>>
    /\ last_result = "none"

Producer ==
    \/ \E p \in Producers, to \in EmailInputs, name \in Names : Enqueue(p, to, name)
    \/ \E p \in Producers, req \in Requests : SubmitForm(p, req)

Next == Producer \/ Worker

NextShutdown == Next \/ Stop

\* The program of src/app.py: nothing in it puts the sentinel.
Spec == Init /\ [][Next]_vars

\* The worker thread is scheduled and every attempt returns.
LiveSpec == Spec /\ WF_vars(Worker)

\* The program with the shutdown hook stop().
ShutdownSpec == Init /\ [][NextShutdown]_vars

LiveShutdownSpec == ShutdownSpec /\ WF_vars(Worker)

\* ------------------------------------------------------------ history

\* The i-th put was a task: queue_email_task accepted it and returned True.
Accepted(i) == i <= Len(puts) /\ puts[i].kind = "task"

\* The i-th put is still in the queue.
InQueue(i) == \E k \in 1..Len(email_queue) : email_queue[k].id = i

\* send_confirmation_email_async has been called for the i-th put, with its
\* recipient.
Attempted(i) ==
    \E k \in 1..Len(attempts) :
        attempts[k].id = i /\ i <= Len(puts) /\ attempts[k].to = puts[i].to

\* The number of attempts that have returned: the latest one is still
\* running while the worker is inside send_confirmation_email_async.
NFinished == IF pc = "send" THEN Len(attempts) - 1 ELSE Len(attempts)

\* The attempt for the i-th put has returned.
AttemptFinished(i) ==
    \E k \in 1..NFinished : attempts[k].id = i

\* The ways an attempt fails.
Failures == {"no_credentials", "auth_error", "smtp_error", "timeout", "other_error"}

\* A sentinel has been put; the position of the first one.
SentinelPut == \E i \in 1..Len(puts) : puts[i].kind = "None"

FirstSentinel ==
    CHOOSE i \in 1..Len(puts) :
        /\ puts[i].kind = "None"
        /\ \A j \in 1..(i - 1) : puts[j].kind # "None"

\* ------------------------------------------------------------- claims

\* C1: every task that queue_email_task accepted is eventually given a
\* delivery attempt (a call of send_confirmation_email_async with the task's
\* recipient), whatever the producers enqueue, when the worker thread keeps
\* being scheduled and every attempt returns.  Stated as: again and again
\* every task accepted so far has been attempted; a task once accepted stays
\* accepted, so each accepted task is attempted at one of these moments.
C1_AcceptedIsAttempted ==
    []<>(\A i \in 1..Len(puts) : Accepted(i) => Attempted(i))

\* Tasks of both producers were accepted and every one of them has been
\* attempted.
C1_Witness ==
    /\ Len(puts) = MaxPuts
    /\ \E i, j \in 1..Len(puts) : puts[i].by # puts[j].by
    /\ \A i \in 1..Len(puts) : Accepted(i) /\ AttemptFinished(i)

\* C2: attempts start in the order of the puts: when the attempt for a task
\* has started, the attempt for every task put before it (by the same
\* producer or by another) has started and returned.
C2_AttemptsInPutOrder ==
    /\ \A i, j \in 1..Len(puts) :
          (i < j /\ Accepted(i) /\ Accepted(j) /\ Attempted(j))
              => (Attempted(i) /\ AttemptFinished(i))
    /\ \A k, m \in 1..Len(attempts) :
          k < m => attempts[k].id < attempts[m].id

\* One producer put T1 and later T2, the other producer put a task in
\* between, and all three have been attempted.
C2_Witness ==
    \E i, m, j \in 1..Len(puts) :
        /\ i < m /\ m < j
        /\ puts[i].by = puts[j].by /\ puts[m].by # puts[i].by
        /\ Accepted(i) /\ Accepted(m) /\ Accepted(j)
        /\ Attempted(i) /\ Attempted(m) /\ Attempted(j)

\* C3: a failed attempt never stops the worker: however the attempt fails
\* (missing credentials, authentication error, transport error, timeout,
\* any other exception), the attempt returns without raising (task_done is
\* reached), the worker is back in email_queue.get, it never leaves its
\* loop, and when a next task waits in the queue the worker dequeues that
\* task and attempts it.
C3_FailureDoesNotStopWorker ==
    /\ [][(pc = "send" /\ pc' # "send") =>
            /\ pc' = "get"
            /\ email_queue' = email_queue
            /\ unfinished_tasks' = unfinished_tasks - 1]_vars
    /\ [](pc \in {"get", "send"})
    /\ [][(last_result \in Failures /\ pc' = "send") =>
            /\ email_queue # <<>>
            /\ task' = Head(email_queue)
            /\ attempts' = Append(attempts, Attempt(task'.id, task'.to))]_vars
    /\ (last_result \in Failures /\ email_queue # <<>>) ~> (pc = "send")

\* The attempt for one task has failed by an authentication error, the
\* worker is back in get and is about to dequeue the next task.
C3_Witness ==
    /\ last_result = "auth_error"
    /\ pc = "get"
    /\ email_queue # <<>>
    /\ ENABLED WorkerGet

\* C4: queue_email_task with an empty recipient returns False and leaves the
\* queue as it was, in every state of the queue and the worker, and no item
\* with an empty recipient is ever queued or attempted.
C4_EmptyRecipientRejected ==
    /\ [][\A p \in Producers, name \in Names :
            Enqueue(p, "", name) =>
                /\ last'.ret = "False"
                /\ UNCHANGED <<email_queue, unfinished_tasks, puts, attempts, pc>>]_vars
    /\ [](/\ \A k \in 1..Len(email_queue) :
                email_queue[k].kind = "task" => email_queue[k].to # ""
          /\ \A k \in 1..Len(attempts) : attempts[k].to # "")

\* An empty recipient was rejected while a task waited in the queue and the
\* worker was in the middle of an attempt.
C4_Witness ==
    /\ last.ret = "False"
    /\ email_queue # <<>>
    /\ pc = "send"

\* C5 as claimed: once the sentinel has been put on email_queue, no further
\* delivery attempt starts.
C5_NoAttemptAfterStop ==
    [][SentinelPut => attempts' = attempts]_vars

\* C5, amended: once the sentinel has been put, the only attempts still made
\* are for tasks put before it; the worker then dequeues the sentinel and
\* terminates, and a terminated worker stays terminated and attempts nothing.
C5_OnlyEarlierTasksAfterStop ==
    /\ [](SentinelPut =>
            \A k \in 1..Len(attempts) : attempts[k].id < FirstSentinel)
    /\ [][pc = "done" => (pc' = "done" /\ attempts' = attempts)]_vars
    /\ SentinelPut ~> (pc = "done")

\* The worker has terminated after attempting a task put before the
\* sentinel, and a task put after the sentinel is left in the queue.
C5_Witness ==
    /\ pc = "done"
    /\ Len(attempts) >= 1
    /\ \E i \in 1..Len(puts) : i > FirstSentinel /\ Accepted(i) /\ InQueue(i)

\* C6: with an empty queue the worker neither terminates nor attempts
\* anything: whatever happens next, it is still waiting in get; a timeout of
\* get changes nothing but the count of timeouts; and whatever the number of
\* timeouts so far, the worker dequeues the task that arrives and attempts
\* it.
C6_IdleWorkerKeepsWaiting ==
    /\ [][(pc = "get" /\ email_queue = <<>>) =>
            (pc' = "get" /\ attempts' = attempts)]_vars
    /\ [][idle' > idle =>
            /\ pc = "get" /\ email_queue = <<>>
            /\ UNCHANGED <<pc, email_queue, unfinished_tasks, task, attempts>>]_vars
    /\ [][(pc = "get" /\ pc' = "send") =>
            /\ email_queue # <<>>
            /\ task' = Head(email_queue)
            /\ attempts' = Append(attempts, Attempt(task'.id, task'.to))]_vars
    /\ (pc = "get" /\ email_queue # <<>>) ~> (pc = "send")

\* get has timed out as often as the model counts, then a task arrived, and
\* the worker is about to dequeue it.
C6_Witness ==
    /\ idle = MaxIdle
    /\ pc = "get"
    /\ Len(email_queue) = 1
    /\ ENABLED WorkerGet

\* C7: queue_email_task with a non-empty recipient can run to completion in
\* every state of the worker (waiting, in an attempt, terminated): it appends
\* the one task (recipient, name) at the tail, returns True, and neither
\* makes an attempt nor moves the worker.
C7_EnqueueNeverWaits ==
    /\ [](Len(puts) < MaxPuts =>
            \A p \in Producers, to \in Emails, name \in Names :
                ENABLED Enqueue(p, to, name))
    /\ [][\A p \in Producers, to \in Emails, name \in Names :
            Enqueue(p, to, name) =>
                /\ email_queue' =
                       Append(email_queue, Task(to, name, Len(puts) + 1))
                /\ Len(email_queue') = Len(email_queue) + 1
                /\ last'.ret = "True"
                /\ UNCHANGED <<pc, task, attempts, last_result>>]_vars

\* queue_email_task has returned True with the worker terminated, and the
\* task it put is the tail of the queue.
C7_Witness ==
    /\ pc = "done"
    /\ last = Returned("True", FALSE)
    /\ email_queue # <<>>
    /\ email_queue[Len(email_queue)].id = Len(puts)
    /\ Accepted(Len(puts))

\* C8: a task is attempted at most once: no two attempts are for the same
\* put, every attempt is for an accepted task and goes to its recipient, an
\* attempted task is not in the queue again, and no recipient has more
\* attempts than tasks put for it.
C8_AtMostOneAttemptPerTask ==
    /\ \A k, m \in 1..Len(attempts) :
          k # m => attempts[k].id # attempts[m].id
    /\ \A k \in 1..Len(attempts) :
          /\ Accepted(attempts[k].id)
          /\ attempts[k].to = puts[attempts[k].id].to
          /\ ~InQueue(attempts[k].id)
    /\ \A e \in Emails :
          Cardinality({k \in 1..Len(attempts) : attempts[k].to = e})
            <= Cardinality({i \in 1..Len(puts) : Accepted(i) /\ puts[i].to = e})

\* The same recipient was put twice, both tasks were attempted, the later
\* attempt failed, and the queue is empty: the failed task is gone.
C8_Witness ==
    /\ Len(puts) >= 2
    /\ Accepted(1) /\ Accepted(2) /\ puts[1].to = puts[2].to
    /\ AttemptFinished(1) /\ AttemptFinished(2)
    /\ last_result \in Failures
    /\ pc = "get"
    /\ email_queue = <<>>

\* C9: the worker leaves its loop only by dequeuing the sentinel, it does
\* leave when it dequeues it, and when it has left, every task put before
\* the sentinel has had its attempt.
C9_ExitOnlyBySentinel ==
    /\ [](pc = "done" =>
            /\ SentinelPut
            /\ ~InQueue(FirstSentinel)
            /\ \A i \in 1..(FirstSentinel - 1) : AttemptFinished(i))
    /\ [][(pc # "done" /\ pc' = "done") =>
            /\ pc = "get"
            /\ email_queue # <<>>
            /\ IsNone(Head(email_queue))
            /\ email_queue' = Tail(email_queue)]_vars
    /\ [][(pc = "get" /\ email_queue # <<>> /\ IsNone(Head(email_queue))
             /\ email_queue' = Tail(email_queue)) => pc' = "done"]_vars

\* Two tasks were put before the sentinel, both have been attempted, and
\* the worker has left its loop.
C9_Witness ==
    /\ pc = "done"
    /\ FirstSentinel = 3
    /\ AttemptFinished(1) /\ AttemptFinished(2)

\* C10: a /submit request puts a task exactly when the submitted email is
\* not empty and EMAIL_USER and EMAIL_PASSWORD are both set; it puts at most
\* one; email_queued in its response is true exactly when it put one; and it
\* returns with the task at the tail of the queue, without an attempt having
\* started or the worker having moved.
C10_SubmitQueuesIffConfigured ==
    [][\A p \in Producers, req \in Requests :
        SubmitForm(p, req) =>
            /\ Len(puts') \in {Len(puts), Len(puts) + 1}
            /\ (Len(puts') = Len(puts) + 1) <=>
                  /\ Truthy(SubmittedEmail(req))
                  /\ Truthy(EMAIL_USER)
                  /\ Truthy(EMAIL_PASSWORD)
            /\ last'.email_queued <=> (Len(puts') = Len(puts) + 1)
            /\ submit_form_response(req).email_queued = last'.email_queued
            /\ Len(puts') = Len(puts) + 1 =>
                  /\ submit_form_response(req).status = 200
                  /\ puts'[Len(puts')].by = p
                  /\ email_queue' =
                         Append(email_queue,
                                Task(SubmittedEmail(req), SubmittedName(req),
                                     Len(puts')))
            /\ Len(puts') = Len(puts) => email_queue' = email_queue
            /\ UNCHANGED <<pc, task, attempts, last_result>>]_vars

\* A /submit request has returned email_queued true while its task waits at
\* the tail of the queue and the worker is in the middle of another attempt.
C10_Witness ==
    /\ last = Returned("True", TRUE)
    /\ pc = "send"
    /\ email_queue # <<>>
    /\ email_queue[Len(email_queue)].id = Len(puts)
    /\ task.id < Len(puts)

\* The number of delivery tasks the worker holds between get and task_done.
InFlight == IF pc = "send" THEN 1 ELSE 0

\* The number of task_done calls so far: every put counts one unfinished
\* task up, every task_done counts one down.
NTaskDone == Len(puts) - unfinished_tasks

\* C11: the worker calls task_done exactly once for every delivery task it
\* dequeues, after that task's attempt has returned and whether the attempt
\* succeeded or failed: the number of task_done calls is the number of
\* attempts that have returned; the count goes down by one in the step in
\* which an attempt returns, whatever its outcome, and in no other step; as
\* long as no sentinel has been dequeued the unfinished-task count is the
\* number of items still queued plus the one in flight; and it is zero
\* whenever the queue is empty and the worker waits in get.
C11_TaskDoneOncePerTask ==
    /\ [](unfinished_tasks <= Len(puts) /\ NTaskDone = NFinished)
    /\ [][(pc = "send" /\ pc' # "send") =>
            /\ unfinished_tasks' = unfinished_tasks - 1
            /\ last_result' \in Failures \cup {"sent"}
            /\ attempts' = attempts]_vars
    /\ [][unfinished_tasks' < unfinished_tasks =>
            /\ pc = "send" /\ pc' = "get"
            /\ task # NoTask /\ task' = NoTask
            /\ attempts[Len(attempts)].id = task.id
            /\ unfinished_tasks' = unfinished_tasks - 1
            /\ email_queue' = email_queue]_vars
    /\ [](pc # "done" => unfinished_tasks = Len(email_queue) + InFlight)
    /\ []((email_queue = <<>> /\ pc = "get") => unfinished_tasks = 0)

\* Two tasks were put and dequeued, the attempt for the second one failed
\* and returned, and the worker is idle on the drained queue with nothing
\* unfinished.
C11_Witness ==
    /\ Len(puts) >= 2
    /\ Len(attempts) = Len(puts)
    /\ last_result \in Failures
    /\ pc = "get"
    /\ email_queue = <<>>
    /\ unfinished_tasks = 0

====
